---- MODULE Spec2Model ----
(***************************************************************************)
(* A model of socklocks.py: a lock shared by unrelated processes, held by  *)
(* whichever process owns the listening socket bound to the lock's         *)
(* address, and passed on by sending that socket's descriptor to the       *)
(* first process found waiting in the accept queue.                        *)
(*                                                                         *)
(* These specifications share the module:                                 *)
(*   Spec / FairSpec  the acquire/release protocol of the two Unix         *)
(*                    backends (abstract and named addresses), every       *)
(*                    process using the lock through the with statement;   *)
(*   CtorSpec         SocketLock.__init__ (backend choice and address      *)
(*                    derivation);                                         *)
(*   MpSpec           replace_mp_context_locks;                            *)
(*   TcpSpec          one handoff of the loopback-TCP backend, the bytes   *)
(*                    its holder and its peer exchange;                    *)
(*   ThreadSpec       SocketLockThreadSafe, the threads of one process     *)
(*                    sharing an instance, with any answer of the kernel   *)
(*                    to the core's calls.                                 *)
(*                                                                         *)
(* The kernel is modelled as far as the protocol uses it: a listening      *)
(* socket lives as long as some descriptor refers to it (a descriptor of   *)
(* a process, or one in flight in an SCM_RIGHTS message), an abstract      *)
(* address is bound exactly as long as its socket lives, a socket file     *)
(* stays until it is unlinked, connect() is refused when nothing listens   *)
(* at the address and returns as soon as the connection is queued, and a   *)
(* queued connection whose listener dies reads end-of-file (the case       *)
(* lines 106-109 of socklocks.py handle).  array.fromstring (line 105) is  *)
(* taken to exist, as on the interpreters 3.3 to 3.8.                      *)
(***************************************************************************)
EXTENDS Integers, Sequences, FiniteSets, TLC

\* ------------------------------------------------------------- bounds
NumProcs == 3
MaxAcquires == 3
MaxDepth == 2
MaxHandleLen == 2
NumThreads == 3

\* ------------------------------------------------- program constants
\* for backoff in (0.0001, 0.001, 0.01, 0.1)
ConnectAttemptsOneMore == 4 + 1
ConnectAttempts == 4

Procs == 1..NumProcs
Ids == 1..MaxAcquires

VARIABLES
    backend,        \* "abstract" | "named": the process-global backend
    pc,             \* each process's position in acquire(); body; release()
    _socket,        \* SocketLock._socket of each process's instance
    kstate,         \* kernel: each listening-socket object's state
    addrOwner,      \* kernel: the socket the address (name or file) belongs to
    backlog,        \* kernel: each listening socket's accept queue
    leaked,         \* descriptors a process received and never closes
    conn,           \* each process's wait_sock connection
    next_acquirer,  \* release()'s accepted connection, by its peer
    fin,            \* the accepted connection was closed by its peer
    attempts,       \* refused connects of the current attempt_connect_and_recv
    acquires,       \* calls of acquire() so far, by all processes
    body_exc,       \* __exit__'s exc_type is set: an exception left the body
    \* SocketLock.__init__
    platform,       \* what the interpreter's socket module and the OS offer
    hash_seed,      \* each process's salt of hash() for bytes
    instances,      \* the constructions made so far, first and second
    \* replace_mp_context_locks
    ctx_Lock,       \* each multiprocessing context's Lock attribute
    ctx_initial,    \* ctx_Lock before any scope was entered
    mp_stack,       \* the scopes entered and not left, innermost last
    mp_last,        \* the scope left last, and how
    \* the handoff of the loopback-TCP backend, one holder and one peer
    dword_size,     \* dword.size, Struct('L').size: 4 or 8 by the platform
    os_getpid,      \* the peer's process id
    share_result,   \* what self._socket.share(target_pid) returns
    holder_pc,      \* the holder's position in _send_listening_fd
    peer_pc,        \* the peer's position in _recv_listening_sock
    pid_wire,       \* the bytes the peer has written to the connection
    pid_buffer,     \* _send_listening_fd's pid_buffer
    target_pid,     \* _send_listening_fd's target_pid
    sent,           \* the bytes the holder has written to the connection
    handle_bytes,   \* _recv_listening_sock's handle_bytes
    \* SocketLockThreadSafe, one instance shared by the threads of a process
    thread_lock,    \* self._thread_lock is locked
    thread_pc,      \* each thread's position in acquire(); body; release()
    thread_attempts \* refused connects of a thread's attempt_connect_and_recv

scopeVars == <<body_exc>>
ctorVars == <<platform, hash_seed, instances>>
mpVars == <<ctx_Lock, ctx_initial, mp_stack, mp_last>>
tcpVars == <<dword_size, os_getpid, share_result, holder_pc, peer_pc,
             pid_wire, pid_buffer, target_pid, sent, handle_bytes>>
threadVars == <<thread_lock, thread_pc, thread_attempts>>
others == <<ctorVars, mpVars, tcpVars, threadVars>>

lockVars == <<backend, pc, _socket, kstate, addrOwner, backlog, leaked, conn,
              next_acquirer, fin, attempts, acquires, scopeVars>>

vars == <<lockVars, others>>

\* self._socket = None (line 80)
None == [set |-> FALSE, id |-> 0, open |-> FALSE]
\* socket.socket(family, SOCK_STREAM): a new socket, bound to nothing
FreshSocket == [set |-> TRUE, id |-> 0, open |-> TRUE]
\* a socket object after close()
ClosedSocket == [set |-> TRUE, id |-> 0, open |-> FALSE]
\* a socket object whose descriptor refers to listening socket s
SocketOn(s) == [set |-> TRUE, id |-> s, open |-> TRUE]

\* wait_sock's connection: the listening socket it is queued on (0 once it is
\* accepted, or dead), whether it was accepted, whether its listener died
\* before accepting it, and the handoff message in flight with its descriptor.
NoConn == [to |-> 0, accepted |-> FALSE, eof |-> FALSE, msg |-> FALSE, fd |-> 0]

\* The kernel keeps a socket while a descriptor refers to it: an instance's
\* socket object, a leaked descriptor, or one in flight in a message.
AliveIn(s, socks, leaks, conns) ==
    \E p \in Procs :
        \/ socks[p].open /\ socks[p].id = s
        \/ s \in leaks[p]
        \/ conns[p].msg /\ conns[p].fd = s

Alive(s) == AliveIn(s, _socket, leaked, conn)

\* self._needs_unlink
needs_unlink_never(b) == FALSE
needs_unlink_always(b) == TRUE
needs_unlink(b) == b = "named"

FileExists == backend = "named" /\ addrOwner # 0

\* bind() fails while the address is taken: a named address while the file
\* exists, an abstract one while a socket is bound to it.
bind_always_ok == TRUE
bind_ok == addrOwner = 0

\* The outcome of wait_sock.connect(self._addr).
connect_outcome ==
    IF backend = "named" /\ addrOwner = 0 THEN "FileNotFoundError"
    ELSE IF addrOwner # 0 /\ kstate[addrOwner] = "listening"
         THEN "connected"
         ELSE "ConnectionRefusedError"

\* The descriptor _send_listening_fd puts in the message: self._socket.fileno()
SentOtherDescriptor(p) == 0
SentDescriptor(p) == _socket[p].id

\* The descriptors a process is left with after _recv_listening_sock, besides
\* socket.fromfd's duplicate: what recvmsg delivered (listening_fd), which is
\* never closed.
ReceivedDescriptors(fd) == {fd} \cap Ids

\* What one self._socket.accept() leaves of the accept queue: all but the
\* first connection.
backlog_after_accepting_all(queue) == <<>>
backlog_after_accept(queue) == Tail(queue)

\* next_acquirer.recv(2) of release(), on a blocking socket: it returns once
\* the peer has closed its end (the peer sends nothing on this connection).
recv_returns_at_once(p) == TRUE
recv_returns(p) == fin[p]

\* __exit__ calls self.release() whatever exc_type is.
ExitReleasesOnlyWithoutException(exc) == ~exc
ExitCallsRelease(exc) == TRUE

LockInit ==
    /\ pc = [p \in Procs |-> "idle"]
    /\ _socket = [p \in Procs |-> None]
    /\ kstate = [s \in Ids |-> "unused"]
    /\ addrOwner = 0
    /\ backlog = [s \in Ids |-> <<>>]
    /\ leaked = [p \in Procs |-> {}]
    /\ conn = [p \in Procs |-> NoConn]
    /\ next_acquirer = [p \in Procs |-> 0]
    /\ fin = [p \in Procs |-> FALSE]
    /\ attempts = [p \in Procs |-> 0]
    /\ acquires = 0
    /\ body_exc = [p \in Procs |-> FALSE]

\* ------------------------------------------------- SocketLock.__init__

\* The two processes that construct locks, each with its own hash salt.
CtorProcs == {"P", "Q"}
HashSeeds == {0, 1}
Slots == {"first", "second"}

Platforms ==
    [has_AF_UNIX : BOOLEAN, system : {"Linux", "Darwin", "Windows"},
     has_sendmsg : BOOLEAN, has_SCM_RIGHTS : BOOLEAN, has_share : BOOLEAN]

SUPPORTS_UNIX_SOCKS == platform.has_AF_UNIX
SUPPORTS_ABSTRACT_SOCKS_anywhere == SUPPORTS_UNIX_SOCKS
SUPPORTS_ABSTRACT_SOCKS == SUPPORTS_UNIX_SOCKS /\ platform.system = "Linux"
SUPPORTS_CMSG_SHARE ==
    SUPPORTS_UNIX_SOCKS /\ platform.has_sendmsg /\ platform.has_SCM_RIGHTS
SUPPORTS_ANY_SHARE == platform.has_share
DEFAULT_ALLOWED_PORTS == [start |-> 10000, stop |-> 65536]
\* b'sklk'
PREFIX == <<115, 107, 108, 107>>
\* tempfile.gettempdirb(), the same directory for every process: b'/tmp'
TempDir == <<47, 116, 109, 112>>

\* The name argument: None, bytes, or a str given by its code points.
NoName == [kind |-> "none", val |-> <<>>]
NameArgs ==
    {NoName,
     [kind |-> "bytes", val |-> <<>>],
     [kind |-> "bytes", val |-> <<97>>],
     [kind |-> "bytes", val |-> <<98, 97>>],
     [kind |-> "str", val |-> <<97>>],
     [kind |-> "str", val |-> <<233>>]}

\* The allowed_inet_ports argument, a range; None is the empty range here,
\* both being false for `or`.
NoPorts == [start |-> 0, stop |-> 0]
PortsArgs == {NoPorts, [start |-> 10000, stop |-> 10003]}
RangeLen(r) == IF r.stop > r.start THEN r.stop - r.start ELSE 0

\* name.encode('ascii')
IsAscii(s) == \A i \in 1..Len(s) : s[i] < 128

RECURSIVE ByteSum(_)
ByteSum(s) == IF s = <<>> THEN 0 ELSE Head(s) + ByteSum(Tail(s))

\* hash(name) of a bytes object: fixed by the process's salt and the bytes,
\* signed.  (A stand-in for the interpreter's salted hash: equal inputs give
\* equal values, another salt gives other values.)
Hash(seed, s) ==
    IF s = <<>> THEN 0
    ELSE ((ByteSum(s) * 31 + Len(s) + seed * 17) % 64) - 32

\* os.path.join of two byte strings
PathJoin(a, b) ==
    IF b # <<>> /\ b[1] = 47 THEN b
    ELSE IF a = <<>> \/ a[Len(a)] = 47 THEN a \o b
    ELSE a \o <<47>> \o b

Unconstructed ==
    [status |-> "unconstructed", proc |-> "P", given |-> NoName,
     ports |-> NoPorts, backend |-> "none", addr |-> <<>>,
     needs_unlink |-> FALSE, name |-> <<>>]

Raised(error, proc, given, ports) ==
    [Unconstructed EXCEPT !.status = error, !.proc = proc, !.given = given,
                          !.ports = ports]

\* The position of the name's port in the allowed ports.
Position(h, ports) == h % (RangeLen(ports) + 1)

\* SocketLock.__init__(name, allowed_inet_ports=ports) in process proc; r is
\* what the random module draws (0 or 1: the least or the greatest value).
SocketLock_init(proc, given, ports, r) ==
    IF given.kind = "str" /\ ~IsAscii(given.val)
    THEN Raised("UnicodeEncodeError", proc, given, ports)
    ELSE
    LET name == given.val
        made == [Unconstructed EXCEPT !.status = "ok", !.proc = proc,
                                      !.given = given, !.ports = ports]
    IN  IF SUPPORTS_ABSTRACT_SOCKS /\ SUPPORTS_CMSG_SHARE
        THEN LET n == IF name = <<>>
                      THEN [i \in 1..(107 - Len(PREFIX)) |-> r * 255]
                      ELSE name
             IN [made EXCEPT !.backend = "abstract",
                             !.addr = <<0>> \o PREFIX \o n,
                             !.name = n]
        ELSE IF SUPPORTS_UNIX_SOCKS /\ SUPPORTS_CMSG_SHARE
        THEN LET n == IF name = <<>>
                      THEN [i \in 1..(IF r = 0 THEN 4 ELSE 22) |->
                               IF r = 0 THEN 97 ELSE 57]
                      ELSE name
             IN [made EXCEPT !.backend = "named",
                             !.addr = PathJoin(TempDir, PREFIX \o n),
                             !.needs_unlink = TRUE,
                             !.name = n]
        ELSE IF SUPPORTS_ANY_SHARE
        THEN LET allowed == IF RangeLen(ports) = 0
                            THEN DEFAULT_ALLOWED_PORTS ELSE ports
                 position == Position(Hash(hash_seed[proc], name), allowed)
                 port == IF name # <<>> THEN allowed.start + position
                         ELSE IF r = 0 THEN allowed.start
                         ELSE allowed.stop - 1
             IN IF name # <<>> /\ position >= RangeLen(allowed)
                THEN Raised("IndexError", proc, given, ports)
                ELSE [made EXCEPT !.backend = "tcp",
                                  !.addr = <<127, 0, 0, 1, port>>,
                                  !.name = IF name # <<>> THEN name
                                           ELSE <<port>>]
        ELSE Raised("NotImplementedError", proc, given, ports)

CtorIdle ==
    /\ platform = [has_AF_UNIX |-> TRUE, system |-> "Linux",
                   has_sendmsg |-> TRUE, has_SCM_RIGHTS |-> TRUE,
                   has_share |-> FALSE]
    /\ hash_seed = [q \in CtorProcs |-> 0]
    /\ instances = [s \in Slots |-> Unconstructed]

\* A process constructs a lock: the first, and then the second.
construct(slot) ==
    /\ instances[slot].status = "unconstructed"
    /\ slot = "second" => instances["first"].status # "unconstructed"
    /\ \E proc \in CtorProcs, given \in NameArgs, ports \in PortsArgs,
          r \in {0, 1} :
          instances' = [instances EXCEPT
                           ![slot] = SocketLock_init(proc, given, ports, r)]
    /\ UNCHANGED <<lockVars, mpVars, tcpVars, threadVars, platform, hash_seed>>

\* ----------------------------------------- replace_mp_context_locks

Contexts == {"fork", "spawn"}
Factories == {"multiprocessing.Lock", "SocketLockThreadSafe", "other"}

MpIdle ==
    /\ ctx_Lock = [c \in Contexts |-> "multiprocessing.Lock"]
    /\ ctx_initial = ctx_Lock
    /\ mp_stack = <<>>
    /\ mp_last = [ctx |-> "none", exc |-> FALSE]

\* The generator, to its yield: the context's factory is kept and replaced.
mp_enter(c) ==
    /\ Len(mp_stack) < MaxDepth
    /\ mp_stack' = Append(mp_stack,
                          [ctx |-> c, original_lock_factory |-> ctx_Lock[c]])
    /\ ctx_Lock' = [ctx_Lock EXCEPT ![c] = "SocketLockThreadSafe"]
    /\ UNCHANGED <<lockVars, ctorVars, tcpVars, threadVars, ctx_initial,
                   mp_last>>

\* Whether the generator's `finally` runs when the scope is left.
FinallyOnlyWithoutException(exc) == ~exc
RunsFinally(exc) == TRUE

\* The innermost scope is left, normally or by an exception thrown into the
\* generator at its yield.
mp_exit(exc) ==
    /\ mp_stack # <<>>
    /\ LET top == mp_stack[Len(mp_stack)]
       IN /\ ctx_Lock' = IF RunsFinally(exc)
                         THEN [ctx_Lock EXCEPT
                                  ![top.ctx] = top.original_lock_factory]
                         ELSE ctx_Lock
          /\ mp_last' = [ctx |-> top.ctx, exc |-> exc]
    /\ mp_stack' = SubSeq(mp_stack, 1, Len(mp_stack) - 1)
    /\ UNCHANGED <<lockVars, ctorVars, tcpVars, threadVars, ctx_initial>>

\* ------------------------------- the handoff of the loopback-TCP backend

\* The byte values handles and process ids are made of here.
HandleByteValues == {0, 1, 9}
Pids == {1, 258}

RECURSIVE SeqsUpTo(_)
SeqsUpTo(n) ==
    IF n = 0 THEN {<<>>}
    ELSE SeqsUpTo(n - 1)
         \cup {Append(s, b) : s \in {x \in SeqsUpTo(n - 1) : Len(x) = n - 1},
                               b \in HandleByteValues}

\* dword.pack(n) and dword.unpack(buf), native order (least byte first)
RECURSIVE dword_pack(_, _)
dword_pack(n, size) ==
    IF size = 0 THEN <<>>
    ELSE <<n % 256>> \o dword_pack(n \div 256, size - 1)
RECURSIVE dword_unpack(_)
dword_unpack(buf) ==
    IF buf = <<>> THEN 0 ELSE Head(buf) + 256 * dword_unpack(Tail(buf))

\* bytes(n) of an int n: n zero bytes
bytes_of_int(n) == [i \in 1..n |-> 0]

\* What _send_listening_fd hands to sendall:
\* bytes(len(handle_bytes),) + handle_bytes
sendall_argument(h) == bytes_of_int(Len(h)) \o h

Min(a, b) == IF a < b THEN a ELSE b
Drop(s, n) == SubSeq(s, n + 1, Len(s))

\* The bytes written to a connection and not yet read from it.
pid_unread == Drop(pid_wire, Len(pid_buffer))
sent_unread == Drop(sent, Len(handle_bytes))

peer_closed == peer_pc \in {"killed", "fromshare", "return_False"}
holder_closed == holder_pc \in {"killed", "closed"}

TcpIdle ==
    /\ dword_size = 4
    /\ os_getpid = 1
    /\ share_result = <<>>
    /\ holder_pc = "recv_pid"
    /\ peer_pc = "send_pid"
    /\ pid_wire = <<>>
    /\ pid_buffer = <<>>
    /\ target_pid = 0
    /\ sent = <<>>
    /\ handle_bytes = <<>>

\* ------------------------------------------------ SocketLockThreadSafe

Threads == 1..NumThreads

\* self._thread_lock = _thread.allocate_lock(): unlocked, and no thread has
\* called anything yet.
ThreadIdle ==
    /\ thread_lock = FALSE
    /\ thread_pc = [t \in Threads |-> "idle"]
    /\ thread_attempts = [t \in Threads |-> 0]

Init ==
    /\ backend \in {"abstract", "named"}
    /\ LockInit
    /\ CtorIdle
    /\ MpIdle
    /\ TcpIdle
    /\ ThreadIdle

\* What the kernel does when process p closes its instance's socket object:
\* if that was the last descriptor of listening socket s, the socket is gone,
\* its queued connections read end-of-file, and an abstract address is free
\* again (a socket file stays).
kernel_close(p) ==
    LET s == _socket[p].id
        socks == [_socket EXCEPT ![p] = ClosedSocket]
        dies == _socket[p].open /\ s # 0 /\ ~AliveIn(s, socks, leaked, conn)
    IN /\ _socket' = socks
       /\ kstate' = IF dies THEN [kstate EXCEPT ![s] = "unused"] ELSE kstate
       /\ backlog' = IF dies THEN [backlog EXCEPT ![s] = <<>>] ELSE backlog
       /\ conn' = IF dies
                  THEN [w \in Procs |->
                           IF conn[w].to = s
                           THEN [conn[w] EXCEPT !.to = 0, !.eof = TRUE]
                           ELSE conn[w]]
                  ELSE conn
       /\ addrOwner' = IF dies /\ backend = "abstract" /\ addrOwner = s
                       THEN 0 ELSE addrOwner

\* `with lock:` is entered: __enter__ calls acquire(), which starts its loop at
\* attempt_listen.
enter(p) ==
    /\ pc[p] = "idle"
    /\ acquires < MaxAcquires
    /\ pc' = [pc EXCEPT ![p] = "attempt_listen"]
    /\ acquires' = acquires + 1
    /\ UNCHANGED <<others, scopeVars, backend, _socket, kstate, addrOwner, backlog, leaked, conn,
                   next_acquirer, fin, attempts>>

\* attempt_listen, to the bind: a new socket object replaces self._socket;
\* a failed bind returns False and acquire goes on to
\* attempt_connect_and_recv, whose connect loop starts.
attempt_listen_bind(p) ==
    /\ pc[p] = "attempt_listen"
    /\ IF bind_ok
       THEN LET s == CHOOSE i \in Ids :
                        kstate[i] = "unused"
                        /\ \A j \in Ids : kstate[j] = "unused" => i <= j
            IN /\ _socket' = [_socket EXCEPT ![p] = SocketOn(s)]
               /\ kstate' = [kstate EXCEPT ![s] = "bound"]
               /\ addrOwner' = s
               /\ pc' = [pc EXCEPT ![p] = "listen"]
       ELSE /\ _socket' = [_socket EXCEPT ![p] = FreshSocket]
            /\ pc' = [pc EXCEPT ![p] = "connect"]
            /\ UNCHANGED <<kstate, addrOwner>>
    /\ UNCHANGED <<others, scopeVars, backend, backlog, leaked, conn, next_acquirer, fin,
                   attempts, acquires>>

\* attempt_listen, the listen: returns True, acquire returns.
attempt_listen_listen(p) ==
    /\ pc[p] = "listen"
    /\ kstate' = [kstate EXCEPT ![_socket[p].id] = "listening"]
    /\ pc' = [pc EXCEPT ![p] = "holding"]
    /\ UNCHANGED <<others, scopeVars, backend, _socket, addrOwner, backlog, leaked, conn,
                   next_acquirer, fin, attempts, acquires>>

\* One turn of attempt_connect_and_recv's connect loop.  A refused connect
\* sleeps and tries again; after the last backoff the loop is over and
\* RuntimeError is raised.  FileNotFoundError returns False: acquire starts
\* over.  A connection is queued on the listening socket and connect returns.
connect(p) ==
    /\ pc[p] = "connect"
    /\ CASE connect_outcome = "connected" ->
              /\ backlog' = [backlog EXCEPT ![addrOwner] = Append(@, p)]
              /\ conn' = [conn EXCEPT ![p] = [NoConn EXCEPT !.to = addrOwner]]
              /\ pc' = [pc EXCEPT ![p] = "recv"]
              /\ attempts' = [attempts EXCEPT ![p] = 0]
         [] connect_outcome = "ConnectionRefusedError" ->
              /\ attempts' = [attempts EXCEPT ![p] =
                                 IF @ + 1 = ConnectAttempts THEN 0 ELSE @ + 1]
              /\ pc' = [pc EXCEPT ![p] =
                           IF attempts[p] + 1 = ConnectAttempts
                           THEN "acquire_raised" ELSE "connect"]
              /\ UNCHANGED <<backlog, conn>>
         [] connect_outcome = "FileNotFoundError" ->
              /\ pc' = [pc EXCEPT ![p] = "attempt_listen"]
              /\ attempts' = [attempts EXCEPT ![p] = 0]
              /\ UNCHANGED <<backlog, conn>>
    /\ UNCHANGED <<others, scopeVars, backend, _socket, kstate, addrOwner, leaked, next_acquirer,
                   fin, acquires>>

\* _recv_listening_sock: recvmsg returns with the message, and self._socket
\* becomes a duplicate of the received descriptor (True), or with nothing
\* once the connection is dead (False).
recv_listening_sock(p) ==
    /\ pc[p] = "recv"
    /\ \/ /\ conn[p].msg
          /\ leaked' = [leaked EXCEPT
                            ![p] = @ \cup ReceivedDescriptors(conn[p].fd)]
          /\ _socket' = [_socket EXCEPT ![p] = SocketOn(conn[p].fd)]
          /\ conn' = [conn EXCEPT ![p].msg = FALSE, ![p].fd = 0]
          /\ pc' = [pc EXCEPT ![p] = "received"]
       \/ /\ ~conn[p].msg
          /\ conn[p].eof
          /\ pc' = [pc EXCEPT ![p] = "not_received"]
          /\ UNCHANGED <<leaked, _socket, conn>>
    /\ UNCHANGED <<others, scopeVars, backend, kstate, addrOwner, backlog, next_acquirer, fin,
                   attempts, acquires>>

\* Leaving `with ... as wait_sock` closes the connection, which its peer in
\* release() reads as the end of the handoff; then acquire returns (acquired)
\* or goes round its loop.
close_wait_sock(p) ==
    /\ pc[p] \in {"received", "not_received"}
    /\ conn' = [conn EXCEPT ![p] = NoConn]
    /\ fin' = [q \in Procs |-> fin[q] \/ next_acquirer[q] = p]
    /\ pc' = [pc EXCEPT ![p] =
                 IF pc[p] = "received" THEN "holding" ELSE "attempt_listen"]
    /\ UNCHANGED <<others, scopeVars, backend, _socket, kstate, addrOwner, backlog, leaked,
                   next_acquirer, attempts, acquires>>

\* The body of the with statement ends, normally or by an exception, and
\* __exit__ runs.
exit(p) ==
    /\ pc[p] = "holding"
    /\ \E exc \in BOOLEAN :
          IF ExitCallsRelease(exc)
          THEN /\ pc' = [pc EXCEPT ![p] = "release"]
               /\ body_exc' = [body_exc EXCEPT ![p] = exc]
          ELSE /\ pc' = [pc EXCEPT ![p] = "idle"]
               /\ UNCHANGED body_exc
    /\ UNCHANGED <<others, backend, _socket, kstate, addrOwner, backlog, leaked, conn,
                   next_acquirer, fin, attempts, acquires>>

\* release, to the accept: the first queued connection is the next acquirer;
\* accept raising means no one is waiting.
release_accept(p) ==
    /\ pc[p] = "release"
    /\ LET s == _socket[p].id
       IN IF _socket[p].open /\ s # 0 /\ backlog[s] # <<>>
          THEN LET w == Head(backlog[s])
               IN /\ backlog' = [backlog EXCEPT ![s] = backlog_after_accept(@)]
                  /\ conn' = [conn EXCEPT ![w].accepted = TRUE, ![w].to = 0]
                  /\ next_acquirer' = [next_acquirer EXCEPT ![p] = w]
                  /\ pc' = [pc EXCEPT ![p] = "send"]
          ELSE /\ pc' = [pc EXCEPT ![p] = "close"]
               /\ UNCHANGED <<backlog, conn, next_acquirer>>
    /\ body_exc' = [body_exc EXCEPT ![p] = FALSE]
    /\ UNCHANGED <<others, backend, _socket, kstate, addrOwner, leaked, fin, attempts,
                   acquires>>

\* release with no one waiting: self._socket.close(), and without a file to
\* remove release returns.
release_close(p) ==
    /\ pc[p] = "close"
    /\ kernel_close(p)
    /\ pc' = [pc EXCEPT ![p] =
                 IF needs_unlink(backend) THEN "unlink" ELSE "idle"]
    /\ UNCHANGED <<others, scopeVars, backend, leaked, next_acquirer, fin, attempts,
                   acquires>>

\* os.unlink(self._addr), which raises when there is no such file.
release_unlink(p) ==
    /\ pc[p] = "unlink"
    /\ IF FileExists
       THEN /\ addrOwner' = 0
            /\ pc' = [pc EXCEPT ![p] = "idle"]
       ELSE /\ pc' = [pc EXCEPT ![p] = "release_raised"]
            /\ UNCHANGED addrOwner
    /\ UNCHANGED <<others, scopeVars, backend, _socket, kstate, backlog, leaked, conn,
                   next_acquirer, fin, attempts, acquires>>

\* _send_listening_fd: sendmsg of one byte and the listening socket's
\* descriptor; sending on a connection its peer has closed raises.
send_listening_fd(p) ==
    /\ pc[p] = "send"
    /\ IF fin[p]
       THEN /\ pc' = [pc EXCEPT ![p] = "release_raised"]
            /\ UNCHANGED conn
       ELSE /\ conn' = [conn EXCEPT ![next_acquirer[p]].msg = TRUE,
                                    ![next_acquirer[p]].fd = SentDescriptor(p)]
            /\ pc' = [pc EXCEPT ![p] = "wait_fin"]
    /\ UNCHANGED <<others, scopeVars, backend, _socket, kstate, addrOwner, backlog, leaked,
                   next_acquirer, fin, attempts, acquires>>

\* release, the end of a handoff: next_acquirer.recv(2) returns when the peer
\* has closed; then both descriptors are closed.
release_finish(p) ==
    /\ pc[p] = "wait_fin"
    /\ recv_returns(p)
    /\ kernel_close(p)
    /\ next_acquirer' = [next_acquirer EXCEPT ![p] = 0]
    /\ fin' = [fin EXCEPT ![p] = FALSE]
    /\ pc' = [pc EXCEPT ![p] = "idle"]
    /\ UNCHANGED <<others, scopeVars, backend, leaked, attempts, acquires>>

step(p) ==
    \/ enter(p)
    \/ attempt_listen_bind(p)
    \/ attempt_listen_listen(p)
    \/ connect(p)
    \/ recv_listening_sock(p)
    \/ close_wait_sock(p)
    \/ exit(p)
    \/ release_accept(p)
    \/ release_close(p)
    \/ release_unlink(p)
    \/ send_listening_fd(p)
    \/ release_finish(p)

Next == \E p \in Procs : step(p)

Spec == Init /\ [][Next]_vars

\* Every process runs on: each blocking call returns once it can, and a body
\* that holds the lock ends.
FairSpec == Spec /\ \A p \in Procs : WF_vars(step(p))

CtorInit ==
    /\ backend = "abstract"
    /\ LockInit
    /\ MpIdle
    /\ TcpIdle
    /\ ThreadIdle
    /\ platform \in Platforms
    /\ hash_seed \in [CtorProcs -> HashSeeds]
    /\ instances = [s \in Slots |-> Unconstructed]

CtorNext == \E slot \in Slots : construct(slot)

CtorSpec == CtorInit /\ [][CtorNext]_vars

MpInit ==
    /\ backend = "abstract"
    /\ LockInit
    /\ CtorIdle
    /\ TcpIdle
    /\ ThreadIdle
    /\ ctx_Lock \in [Contexts -> Factories]
    /\ ctx_initial = ctx_Lock
    /\ mp_stack = <<>>
    /\ mp_last = [ctx |-> "none", exc |-> FALSE]

MpNext ==
    \/ \E c \in Contexts : mp_enter(c)
    \/ \E exc \in BOOLEAN : mp_exit(exc)

MpSpec == MpInit /\ [][MpNext]_vars

\* _recv_listening_sock, line 132: the peer sends its process id.
peer_sendall_pid ==
    /\ peer_pc = "send_pid"
    /\ pid_wire' = dword_pack(os_getpid, dword_size)
    /\ peer_pc' = "recv"
    /\ UNCHANGED <<lockVars, ctorVars, mpVars, threadVars, dword_size, os_getpid,
                   share_result, holder_pc, pid_buffer, target_pid, sent,
                   handle_bytes>>

\* The peer's process ends before it has sent anything.
peer_killed ==
    /\ peer_pc = "send_pid"
    /\ peer_pc' = "killed"
    /\ UNCHANGED <<lockVars, ctorVars, mpVars, threadVars, dword_size, os_getpid,
                   share_result, holder_pc, pid_wire, pid_buffer, target_pid,
                   sent, handle_bytes>>

\* _send_listening_fd, one turn of the loop of lines 121-125: recv returns
\* some of the bytes asked for, or nothing once the peer has closed, and then
\* the function returns.
holder_recv_pid ==
    /\ holder_pc = "recv_pid"
    /\ IF pid_unread # <<>>
       THEN \E k \in 1..Min(Len(pid_unread), dword_size - Len(pid_buffer)) :
               /\ pid_buffer' = pid_buffer \o SubSeq(pid_unread, 1, k)
               /\ holder_pc' = IF Len(pid_buffer) + k < dword_size
                               THEN "recv_pid" ELSE "share"
       ELSE /\ peer_closed
            /\ holder_pc' = "returned"
            /\ UNCHANGED pid_buffer
    /\ UNCHANGED <<lockVars, ctorVars, mpVars, threadVars, dword_size, os_getpid,
                   share_result, peer_pc, pid_wire, target_pid, sent,
                   handle_bytes>>

\* _send_listening_fd, lines 126-128: unpack, share, sendall.
holder_share_and_sendall ==
    /\ holder_pc = "share"
    /\ target_pid' = dword_unpack(pid_buffer)
    /\ sent' = sendall_argument(share_result)
    /\ holder_pc' = "sent"
    /\ UNCHANGED <<lockVars, ctorVars, mpVars, threadVars, dword_size, os_getpid,
                   share_result, peer_pc, pid_wire, pid_buffer, handle_bytes>>

\* The holder's process ends while it waits for the process id.
holder_killed ==
    /\ holder_pc = "recv_pid"
    /\ holder_pc' = "killed"
    /\ UNCHANGED <<lockVars, ctorVars, mpVars, threadVars, dword_size, os_getpid,
                   share_result, peer_pc, pid_wire, pid_buffer, target_pid,
                   sent, handle_bytes>>

\* release, lines 216-223, after _send_listening_fd has returned: recv(2)
\* returns once the peer has closed, and the connection is closed.
holder_close ==
    /\ holder_pc \in {"sent", "returned"}
    /\ peer_closed
    /\ holder_pc' = "closed"
    /\ UNCHANGED <<lockVars, ctorVars, mpVars, threadVars, dword_size, os_getpid,
                   share_result, peer_pc, pid_wire, pid_buffer, target_pid,
                   sent, handle_bytes>>

\* _recv_listening_sock, lines 133-147: one recv(8), the first or one of the
\* loop's.  The first byte read gives the length expected; an empty read
\* gives up (return False); with all bytes there, socket.fromshare is called.
peer_recv ==
    /\ peer_pc \in {"recv", "recv_more"}
    /\ IF sent_unread # <<>>
       THEN \E k \in 1..Min(Len(sent_unread), 8) :
               LET got == handle_bytes \o SubSeq(sent_unread, 1, k)
                   expected_fd_bytes_length == got[1] + 1
               IN /\ handle_bytes' = got
                  /\ peer_pc' = IF Len(got) < expected_fd_bytes_length
                                THEN "recv_more" ELSE "fromshare"
       ELSE /\ holder_closed
            /\ handle_bytes' = <<>>
            /\ peer_pc' = "return_False"
    /\ UNCHANGED <<lockVars, ctorVars, mpVars, threadVars, dword_size, os_getpid,
                   share_result, holder_pc, pid_wire, pid_buffer, target_pid,
                   sent>>

TcpInit ==
    /\ backend = "abstract"
    /\ LockInit
    /\ CtorIdle
    /\ MpIdle
    /\ ThreadIdle
    /\ dword_size \in {4, 8}
    /\ os_getpid \in Pids
    /\ share_result \in SeqsUpTo(MaxHandleLen)
    /\ holder_pc = "recv_pid"
    /\ peer_pc = "send_pid"
    /\ pid_wire = <<>>
    /\ pid_buffer = <<>>
    /\ target_pid = 0
    /\ sent = <<>>
    /\ handle_bytes = <<>>

TcpNext ==
    \/ peer_sendall_pid
    \/ peer_killed
    \/ holder_recv_pid
    \/ holder_share_and_sendall
    \/ holder_killed
    \/ holder_close
    \/ peer_recv

TcpSpec == TcpInit /\ [][TcpNext]_vars

\* The threads of one process share a SocketLockThreadSafe instance.  What
\* the kernel answers to the core's bind, connect and recvmsg depends on the
\* other processes at the lock's address: any answer is taken here.

\* self._thread_lock.acquire() returns only when it has found the lock
\* unlocked, and has locked it.
thread_lock_never_blocks == TRUE
thread_lock_available == ~thread_lock

otherThanThreads == <<lockVars, ctorVars, mpVars, tcpVars>>

\* A thread calls acquire() (again, after an acquire() that raised).
thread_call_acquire(t) ==
    /\ thread_pc[t] \in {"idle", "raised"}
    /\ thread_pc' = [thread_pc EXCEPT ![t] = "thread_lock_acquire"]
    /\ UNCHANGED <<otherThanThreads, thread_lock, thread_attempts>>

\* SocketLockThreadSafe.acquire, line 241; super().acquire() is next.
thread_lock_acquire(t) ==
    /\ thread_pc[t] = "thread_lock_acquire"
    /\ thread_lock_available
    /\ thread_lock' = TRUE
    /\ thread_pc' = [thread_pc EXCEPT ![t] = "attempt_listen"]
    /\ UNCHANGED <<otherThanThreads, thread_attempts>>

\* The core acquire's attempt_listen: True and acquire returns, or False and
\* attempt_connect_and_recv is next.
thread_attempt_listen(t) ==
    /\ thread_pc[t] = "attempt_listen"
    /\ \E bound \in BOOLEAN :
          thread_pc' = [thread_pc EXCEPT
                           ![t] = IF bound THEN "holding" ELSE "connect"]
    /\ UNCHANGED <<otherThanThreads, thread_lock, thread_attempts>>

\* One turn of the connect loop; RuntimeError after the last refusal leaves
\* the core acquire and, nothing catching it, SocketLockThreadSafe.acquire.
thread_connect(t) ==
    /\ thread_pc[t] = "connect"
    /\ \E outcome \in {"connected", "ConnectionRefusedError",
                        "FileNotFoundError"} :
          CASE outcome = "connected" ->
                 /\ thread_pc' = [thread_pc EXCEPT ![t] = "recv"]
                 /\ thread_attempts' = [thread_attempts EXCEPT ![t] = 0]
            [] outcome = "ConnectionRefusedError" ->
                 /\ thread_attempts' =
                        [thread_attempts EXCEPT
                            ![t] = IF @ + 1 = ConnectAttempts THEN 0 ELSE @ + 1]
                 /\ thread_pc' =
                        [thread_pc EXCEPT
                            ![t] = IF thread_attempts[t] + 1 = ConnectAttempts
                                   THEN "raised" ELSE "connect"]
            [] outcome = "FileNotFoundError" ->
                 /\ thread_pc' = [thread_pc EXCEPT ![t] = "attempt_listen"]
                 /\ thread_attempts' = [thread_attempts EXCEPT ![t] = 0]
    /\ UNCHANGED <<otherThanThreads, thread_lock>>

\* _recv_listening_sock returns True and acquire returns, or False and the
\* loop of acquire goes round.
thread_recv(t) ==
    /\ thread_pc[t] = "recv"
    /\ \E acquired \in BOOLEAN :
          thread_pc' = [thread_pc EXCEPT
                           ![t] = IF acquired THEN "holding"
                                  ELSE "attempt_listen"]
    /\ UNCHANGED <<otherThanThreads, thread_lock, thread_attempts>>

\* The thread calls release(): SocketLockThreadSafe.release, line 245, calls
\* the core release.
thread_call_release(t) ==
    /\ thread_pc[t] = "holding"
    /\ thread_pc' = [thread_pc EXCEPT ![t] = "super_release"]
    /\ UNCHANGED <<otherThanThreads, thread_lock, thread_attempts>>

\* The core release returns.
thread_super_release(t) ==
    /\ thread_pc[t] = "super_release"
    /\ thread_pc' = [thread_pc EXCEPT ![t] = "thread_lock_release"]
    /\ UNCHANGED <<otherThanThreads, thread_lock, thread_attempts>>

\* SocketLockThreadSafe.release, line 246.
thread_lock_release(t) ==
    /\ thread_pc[t] = "thread_lock_release"
    /\ thread_lock' = FALSE
    /\ thread_pc' = [thread_pc EXCEPT ![t] = "idle"]
    /\ UNCHANGED <<otherThanThreads, thread_attempts>>

ThreadInit ==
    /\ backend \in {"abstract", "named"}
    /\ LockInit
    /\ CtorIdle
    /\ MpIdle
    /\ TcpIdle
    /\ ThreadIdle

ThreadNext ==
    \E t \in Threads :
        \/ thread_call_acquire(t)
        \/ thread_lock_acquire(t)
        \/ thread_attempt_listen(t)
        \/ thread_connect(t)
        \/ thread_recv(t)
        \/ thread_call_release(t)
        \/ thread_super_release(t)
        \/ thread_lock_release(t)

ThreadSpec == ThreadInit /\ [][ThreadNext]_vars

\* ------------------------------------------------------------- claims

InAcquire(p) ==
    pc[p] \in {"attempt_listen", "listen", "connect", "recv", "received",
               "not_received"}
InRelease(p) == pc[p] \in {"release", "close", "unlink", "send", "wait_fin"}
ViaHandoff(p) == _socket[p].open /\ _socket[p].id \in leaked[p]

\* C1: at no time are two processes inside their critical sections, that is
\* between acquire() returning and release() being called.
MutualExclusion ==
    \A p, q \in Procs : p # q => ~(pc[p] = "holding" /\ pc[q] = "holding")

\* A process is in its critical section while another waits for the handoff
\* and a third has just failed to bind.
MutualExclusionWitness ==
    \E p, q, r \in Procs :
        /\ pc[p] = "holding"
        /\ pc[q] = "recv"
        /\ pc[r] = "connect"

\* C2: every contender that is inside acquire() eventually leaves it: holding
\* the lock, or (the one error acquire may raise) with its connect retries
\* exhausted; none stays inside acquire() forever.
NoStarvation ==
    \A p \in Procs :
        InAcquire(p) ~> (pc[p] = "holding" \/ pc[p] = "acquire_raised")

\* C3: while a process is between acquire() returning and release() being
\* called, its instance's socket is open, is the socket the lock's address
\* belongs to, and is listening.
HandleCorrect ==
    \A p \in Procs :
        pc[p] = "holding" =>
            /\ _socket[p].open
            /\ _socket[p].id # 0
            /\ addrOwner = _socket[p].id
            /\ kstate[_socket[p].id] = "listening"

\* A process holds the lock through a socket it was handed (by a holder that
\* had bound it).
HandleCorrectWitness ==
    \E p \in Procs : pc[p] = "holding" /\ ViaHandoff(p)

\* C4: acquire() never raises.
AcquireNeverRaises == \A p \in Procs : pc[p] # "acquire_raised"

\* C5: release() never raises, and once called it returns, leaving the
\* instance's socket closed.
ReleaseTerminates ==
    /\ [](\A p \in Procs : pc[p] # "release_raised")
    /\ \A p \in Procs :
          InRelease(p) ~> (pc[p] = "idle" /\ ~_socket[p].open)

\* A release that handed the lock over has returned: its successor holds the
\* socket it received, and every other process is done.
ReleaseTerminatesWitness ==
    \E q \in Procs :
        /\ pc[q] = "holding" /\ ViaHandoff(q)
        /\ \A p \in Procs \ {q} : pc[p] = "idle"
        /\ \E p \in Procs \ {q} : _socket[p] = ClosedSocket

\* C6: named backend: the step that ends a release() which found no one
\* waiting leaves no socket file at the lock's path.
CleanupAfterRelease ==
    [][\A p \in Procs :
          (backend = "named" /\ pc[p] \in {"close", "unlink"}
              /\ pc'[p] = "idle")
          => ~FileExists']_vars

\* Named backend: a lock was taken, every release has returned, and the file
\* is gone.
CleanupWitness ==
    /\ backend = "named"
    /\ acquires > 0
    /\ \A p \in Procs : pc[p] = "idle"
    /\ ~FileExists

\* C9: the body of a with statement is entered only by acquire() returning,
\* every way out of the body calls release(), and release() is called nowhere
\* else: once per body left.
ScopedRelease ==
    [][\A p \in Procs :
          /\ (pc[p] = "holding" /\ pc'[p] # "holding") => pc'[p] = "release"
          /\ (pc'[p] = "release" /\ pc[p] # "release") => pc[p] = "holding"
          /\ (pc'[p] = "holding" /\ pc[p] # "holding")
                => pc[p] \in {"listen", "received"}]_vars

\* A body was left by an exception and release() has been called.
ScopedReleaseWitness ==
    \E p \in Procs : pc[p] = "release" /\ body_exc[p]

Constructed(s) == instances[s].status # "unconstructed"
NameGiven(s) == instances[s].given.val # <<>>

\* C7: two constructions with the same non-empty name (and the same allowed
\* ports), in one process or in two, that both succeed get the same address.
SameNameSameAddress ==
    \A s, u \in Slots :
        (/\ instances[s].status = "ok" /\ instances[u].status = "ok"
         /\ NameGiven(s)
         /\ instances[s].given.val = instances[u].given.val
         /\ instances[s].ports = instances[u].ports)
        => instances[s].addr = instances[u].addr

PositionModLen(h, ports) == h % RangeLen(ports)

\* C8: on the loopback-TCP backend a construction with a non-empty name
\* succeeds, and its port is allowed_ports[hash(name) mod len(allowed_ports)].
PortIsHashModLen ==
    \A s \in Slots :
        (/\ Constructed(s)
         /\ ~(SUPPORTS_UNIX_SOCKS /\ SUPPORTS_CMSG_SHARE)
         /\ SUPPORTS_ANY_SHARE
         /\ NameGiven(s)
         /\ instances[s].status # "UnicodeEncodeError")
        => LET allowed == IF RangeLen(instances[s].ports) = 0
                          THEN DEFAULT_ALLOWED_PORTS ELSE instances[s].ports
               h == Hash(hash_seed[instances[s].proc], instances[s].given.val)
           IN /\ instances[s].status = "ok"
              /\ instances[s].addr =
                     <<127, 0, 0, 1,
                       allowed.start + PositionModLen(h, allowed)>>

\* Which factory context c had before the scope at depth k was entered.
FactoryBefore(c, k) ==
    IF \E j \in 1..(k - 1) : mp_stack[j].ctx = c
    THEN "SocketLockThreadSafe" ELSE ctx_initial[c]

\* C10: inside a scope the context's Lock is SocketLockThreadSafe, and a
\* context no scope is open on has the factory it had before: each scope
\* left, normally or by an exception, has put back what it found.
MpRestores ==
    /\ \A k \in 1..Len(mp_stack) :
          /\ ctx_Lock[mp_stack[k].ctx] = "SocketLockThreadSafe"
          /\ mp_stack[k].original_lock_factory
                 = FactoryBefore(mp_stack[k].ctx, k)
    /\ \A c \in Contexts : ctx_Lock[c] = FactoryBefore(c, Len(mp_stack) + 1)

\* A scope on a context with another factory was left by an exception, and
\* no scope is open.
MpRestoresWitness ==
    /\ mp_stack = <<>>
    /\ mp_last.exc
    /\ mp_last.ctx \in Contexts
    /\ ctx_initial[mp_last.ctx] # "SocketLockThreadSafe"
    /\ ctx_Lock[mp_last.ctx] = ctx_initial[mp_last.ctx]

\* The backend the platform's capabilities call for: the first whose
\* requirements are met, or none.
ExpectedBackend ==
    LET unix == platform.has_AF_UNIX
        abstract_namespace == platform.system = "Linux"
        ancillary == platform.has_sendmsg /\ platform.has_SCM_RIGHTS
    IN  IF unix /\ abstract_namespace /\ ancillary THEN "abstract"
        ELSE IF unix /\ ancillary THEN "named"
        ELSE IF platform.has_share THEN "tcp"
        ELSE "none"

\* C11: whatever the platform offers, a construction that gets to choose a
\* backend (its name is bytes, None or ASCII text) takes the first supported
\* of abstract, named, tcp; when none is supported it raises
\* NotImplementedError, and no socket exists then.
BackendSelection ==
    \A s \in Slots :
        instances[s].status \notin {"unconstructed", "UnicodeEncodeError"} =>
            IF ExpectedBackend = "none"
            THEN /\ instances[s].status = "NotImplementedError"
                 /\ \A p \in Procs : _socket[p] = None
                 /\ \A i \in Ids : kstate[i] = "unused"
            ELSE /\ instances[s].status # "NotImplementedError"
                 /\ instances[s].status = "ok"
                        => instances[s].backend = ExpectedBackend
                 /\ instances[s].status = "IndexError"
                        => ExpectedBackend = "tcp"

\* A construction on a platform with no backend has raised, and so has one
\* made after it.
BackendSelectionWitness ==
    /\ ExpectedBackend = "none"
    /\ \A s \in Slots : instances[s].status = "NotImplementedError"

\* Process p's connect call returns or raises in this step.
ConnectActs(p) ==
    /\ pc[p] = "connect"
    /\ (pc'[p] # "connect" \/ attempts'[p] # attempts[p])

AddressVanished == backend = "named" /\ addrOwner = 0
SomeoneListens == addrOwner # 0 /\ kstate[addrOwner] = "listening"

\* C12: one attempt_connect_and_recv makes at most four connect attempts;
\* acquire() raises exactly when the fourth attempt of one call is refused
\* like the three before it; and a connect that finds the socket file gone
\* raises nothing and is the call's last: acquire goes back to attempt_listen.
ConnectRetries ==
    [][\A p \in Procs :
          /\ attempts'[p] < 4
          /\ (pc'[p] = "acquire_raised" /\ pc[p] # "acquire_raised")
                <=> (/\ ConnectActs(p)
                     /\ attempts[p] = 3
                     /\ ~AddressVanished
                     /\ ~SomeoneListens)
          /\ (ConnectActs(p) /\ AddressVanished)
                => (pc'[p] = "attempt_listen" /\ attempts'[p] = 0)
          /\ (pc[p] = "connect" /\ pc'[p] = "attempt_listen")
                => AddressVanished]_vars

\* One process's acquire() has raised after four refusals, and another, after
\* a refused connect, is about to find the socket file gone.
ConnectRetriesWitness ==
    /\ \E p \in Procs : pc[p] = "acquire_raised"
    /\ \E q \in Procs :
          pc[q] = "connect" /\ attempts[q] > 0 /\ AddressVanished

\* Process p closes its instance's socket in this step.
ClosesSocket(p) == _socket[p].open /\ ~_socket'[p].open

\* C13: a release() that hands the lock over closes its listening socket
\* only once its peer has closed the temporary connection, and the peer
\* closes that connection only when it has received the handle and owns its
\* own open copy of the same listening socket, the outgoing holder's copy
\* being still open then.
CloseAfterHandoff ==
    [][\A p \in Procs :
          /\ (ClosesSocket(p) /\ pc[p] = "wait_fin") => fin[p]
          /\ (fin'[p] /\ ~fin[p]) =>
                LET w == next_acquirer[p]
                IN /\ w \in Procs
                   /\ pc[p] = "wait_fin"
                   /\ _socket[p].open /\ _socket'[p].open
                   /\ pc[w] = "received" /\ pc'[w] = "holding"
                   /\ conn'[w] = NoConn
                   /\ _socket'[w] = SocketOn(_socket[p].id)
                   /\ _socket[p].id \in Ids]_vars

\* The successor holds the lock through its own copy and has closed the
\* temporary connection; the outgoing holder is about to close its copy.
CloseAfterHandoffWitness ==
    \E p \in Procs :
        /\ pc[p] = "wait_fin" /\ fin[p] /\ _socket[p].open
        /\ \E w \in Procs \ {p} :
              /\ next_acquirer[p] = w
              /\ pc[w] = "holding"
              /\ _socket[w] = SocketOn(_socket[p].id)

\* C14: an instance's _socket is set only from the moment its acquire() has
\* got the socket (attempt_listen's bind succeeded, or the handle was
\* received) until its release() returns: it is None before the first
\* acquire, while acquire() contends or waits, and after release().
HeldSocketOnlyWhileHolding ==
    \A p \in Procs :
        _socket[p].set =>
            (pc[p] \in {"listen", "received", "holding"} \/ InRelease(p))

\* The connections still queued on the socket process p holds.
Pending(p) ==
    IF _socket[p].id \in Ids
    THEN {backlog[_socket[p].id][i] : i \in 1..Len(backlog[_socket[p].id])}
    ELSE {}

\* C15: a release() accepts one connection at most, the first of the queue,
\* and serves that waiter only: the rest of the queue stays as it was, in
\* order, and nothing of what release() does after the accept (the send, the
\* wait for the peer's close, the close) touches another connection.
OneWaiterPerRelease ==
    [][\A p \in Procs :
          LET s == _socket[p].id
          IN /\ (pc[p] = "release" /\ pc'[p] = "send") =>
                   /\ next_acquirer'[p] = Head(backlog[s])
                   /\ backlog'[s] = Tail(backlog[s])
                   /\ \A w \in Procs \ {Head(backlog[s])} :
                         conn'[w] = conn[w]
             /\ (pc[p] \in {"send", "wait_fin"} /\ pc'[p] # pc[p]) =>
                   /\ backlog' = backlog
                   /\ \A w \in Procs \ {next_acquirer[p]} :
                         conn'[w] = conn[w]
             /\ (pc[p] \in {"send", "wait_fin"}
                    /\ pc'[p] \in {"send", "wait_fin"})
                   => next_acquirer'[p] = next_acquirer[p]
             /\ \A w \in Procs :
                   (conn'[w].accepted /\ ~conn[w].accepted) =>
                       \E h \in Procs :
                           /\ pc[h] = "release" /\ pc'[h] = "send"
                           /\ next_acquirer'[h] = w]_vars

\* A release() has accepted its one waiter while another connection is queued
\* on the same socket.
OneWaiterPerReleaseWitness ==
    \E p \in Procs :
        /\ pc[p] = "wait_fin"
        /\ Pending(p) # {}
        /\ next_acquirer[p] \notin Pending(p)

\* C16: loopback-TCP handoff: having read the peer's process id, the holder
\* writes one byte holding the length N of the handle's representation and
\* then those N bytes, and nothing else.
LengthPrefixedHandle ==
    holder_pc = "sent" =>
        /\ Len(pid_buffer) = dword_size
        /\ target_pid = os_getpid
        /\ sent = <<Len(share_result)>> \o share_result

\* The thread is between entering the core acquire() and leaving the core
\* release().
InCore(t) ==
    thread_pc[t] \in {"attempt_listen", "connect", "recv", "holding",
                       "super_release"}

\* C17: SocketLockThreadSafe: a thread is inside the core, from the start of
\* the core acquire() to the return of the core release(), only with the
\* thread mutex locked, and at most one thread is there at a time.
ThreadMutualExclusion ==
    /\ \A t \in Threads : InCore(t) => thread_lock
    /\ \A t, u \in Threads : (InCore(t) /\ InCore(u)) => t = u

\* One thread holds the lock while the two others wait for the thread mutex.
ThreadMutualExclusionWitness ==
    \E t \in Threads :
        /\ thread_pc[t] = "holding"
        /\ \A u \in Threads \ {t} : thread_pc[u] = "thread_lock_acquire"

\* C20: the thread mutex is not left locked by an acquire() that raised: it
\* is locked only while some thread is between taking it in acquire() and
\* releasing it in release().
ThreadLockNotLeftHeld ==
    thread_lock =>
        \E t \in Threads : InCore(t) \/ thread_pc[t] = "thread_lock_release"

\* C18: from the accept of a handoff until the successor holds the socket it
\* received, the outgoing holder's copy of the listening socket is open, the
\* lock's address belongs to that socket, which listens, a socket file is in
\* place, and a bind to the address fails.
AddressHeldDuringHandoff ==
    \A w \in Procs :
        (conn[w].accepted /\ pc[w] \in {"recv", "received"}) =>
            \E h \in Procs \ {w} :
                /\ next_acquirer[h] = w
                /\ pc[h] \in {"send", "wait_fin"}
                /\ _socket[h].open
                /\ _socket[h].id \in Ids
                /\ addrOwner = _socket[h].id
                /\ kstate[_socket[h].id] = "listening"
                /\ backend = "named" => FileExists
                /\ ~bind_ok

\* A third process is about to try its bind while a handoff is under way.
AddressHeldDuringHandoffWitness ==
    \E w, h, r \in Procs :
        /\ conn[w].accepted /\ pc[w] = "recv" /\ conn[w].msg
        /\ pc[h] = "wait_fin" /\ next_acquirer[h] = w
        /\ pc[r] = "attempt_listen"

\* Listening socket s is being handed over, or has been.
HandedOver(s) ==
    \/ \E h \in Procs :
          pc[h] \in {"send", "wait_fin"} /\ _socket[h] = SocketOn(s)
    \/ \E q \in Procs : (conn[q].msg /\ conn[q].fd = s) \/ s \in leaked[q]

\* Process w's connection is queued on a socket that is being handed to
\* another process, whose connection was accepted and which does not hold
\* the socket yet.
QueuedDuringHandoff(w) ==
    /\ conn[w].to \in Ids /\ ~conn[w].accepted
    /\ \E h \in Procs :
          /\ pc[h] \in {"send", "wait_fin"}
          /\ _socket[h] = SocketOn(conn[w].to)
          /\ next_acquirer[h] \in Procs \ {w}
          /\ conn[next_acquirer[h]].accepted
          /\ pc[next_acquirer[h]] \in {"recv", "received"}

\* C19: a connection queued on a listening socket that is handed over stays
\* queued on that socket until a holder of that socket accepts it (its waiter
\* never reads end-of-file and never connects again), and, every holder
\* releasing in the end, a waiter queued during a handoff comes to hold the
\* lock through the socket it is handed.
QueuedWaiterServed ==
    /\ [][\A w \in Procs : \A s \in Ids :
             (conn[w].to = s /\ HandedOver(s)) =>
                 /\ ~conn'[w].eof
                 /\ \/ conn'[w].to = s
                    \/ /\ conn'[w].accepted
                       /\ \E h \in Procs :
                             /\ _socket[h] = SocketOn(s)
                             /\ pc'[h] = "send"
                             /\ next_acquirer'[h] = w]_vars
    /\ \A w \in Procs :
          QueuedDuringHandoff(w) ~> (pc[w] = "holding" /\ ViaHandoff(w))

\* The lock has gone from its first holder to one waiter and from that one
\* to the next, both of which received the same socket.
QueuedWaiterServedWitness ==
    \E w, q \in Procs : \E s \in Ids :
        /\ w # q
        /\ pc[w] = "holding" /\ _socket[w] = SocketOn(s)
        /\ s \in leaked[w] /\ s \in leaked[q]
====
